---- MODULE Spec2Model ----
(***************************************************************************)
(* Coupon distribution generator (src/app.py).                             *)
(*                                                                         *)
(* generate_coupon_distribution(target_amount, num_coupons) is modelled    *)
(* statement by statement: the feasibility check, the seeding scan, and    *)
(* the adjustment rounds.  Every random.choice is a nondeterministic       *)
(* choice over the list it is given.                                       *)
(* generate_alternative_combinations(target_amount, num_coupons,           *)
(* num_alternatives) is the loop that calls the generator.                 *)
(*                                                                         *)
(*   Spec     one call of the generator (as main does, line 166), or one   *)
(*            call of the alternative builder                              *)
(*   SpecAll  the generator run over all resolutions of its random         *)
(*            choices at once (the set of sequences it can hold)           *)
(***************************************************************************)
EXTENDS Integers, Sequences, FiniteSets, TLC

VARIABLES
    caller,            \* "main": generator called directly; "builder"; "all"
    target_amount,     \* argument
    num_coupons,       \* argument
    num_alternatives,  \* argument of the builder
    pc,                \* position in the code
    distribution,      \* local of the generator
    remaining,         \* local of the generator
    i,                 \* loop index of the generator (1-based)
    attempts,          \* local of the generator: adjustment rounds started
    drawn,             \* the current generator call has called random.choice
    result,            \* value returned by the generator: None or <<distribution>>
    alternatives,      \* local of the builder
    tries,             \* generator invocations made by the builder's for loop
    configs            \* SpecAll: set of [d, r] the generator can hold at this point

vars == <<caller, target_amount, num_coupons, num_alternatives, pc, distribution,
          remaining, i, attempts, drawn, result, alternatives, tries, configs>>

genLocals == <<distribution, remaining, i, attempts, drawn, result>>
args == <<caller, target_amount, num_coupons, num_alternatives>>

----------------------------------------------------------------------------
(* Bounds of the model *)

MaxCount == 3          \* num_coupons ranges over 1..MaxCount
ExtraSteps == 2        \* grid targets go up to MaxCount * max + ExtraSteps * TargetStep
MaxAlternatives == 2   \* num_alternatives ranges over 0..MaxAlternatives

----------------------------------------------------------------------------
(* Program constants *)

COUPON_VALUES == <<250, 500, 1000, 2000>>

MaxRounds == 1000
max_attempts == 100

None == <<>>
Some(d) == <<d>>

Values == {COUPON_VALUES[k] : k \in 1..Len(COUPON_VALUES)}

Min(S) == CHOOSE x \in S : \A y \in S : x <= y
Max(S) == CHOOSE x \in S : \A y \in S : x >= y

RECURSIVE Sum(_)
Sum(s) == IF s = <<>> THEN 0 ELSE Head(s) + Sum(Tail(s))

Abs(x) == IF x < 0 THEN -x ELSE x

\* [min(COUPON_VALUES)] * num_coupons
Repeat(v, n) == [k \in 1..n |-> v]

\* line 12
Infeasible_no_count(target, n) == target < Min(Values)

Infeasible(target, n) == target < n * Min(Values)

----------------------------------------------------------------------------
(* The lists random.choice draws from *)

valid_upgrades_strict(current_value, rem) ==
    {v \in Values : v > current_value /\ (v - current_value) < rem}

valid_upgrades_any(current_value, rem) ==
    {v \in Values \cup {current_value + rem} :
        v > current_value /\ (v - current_value) <= rem}

\* lines 26, 30
valid_upgrades(current_value, rem) ==
    {v \in Values : v > current_value /\ (v - current_value) <= rem}

possible_increases_any(current_value, diff) ==
    {v \in Values \cup {current_value + diff} :
        v > current_value /\ (v - current_value) <= diff}

possible_increases_strict(current_value, diff) ==
    {v \in Values : v > current_value /\ (v - current_value) < diff}

possible_increases_unbounded(current_value, diff) ==
    {v \in Values : v > current_value}

\* line 51
possible_increases(current_value, diff) ==
    {v \in Values : v > current_value /\ (v - current_value) <= diff}

\* line 56
possible_decreases(current_value, diff) ==
    {v \in Values : v < current_value /\ (current_value - v) <= Abs(diff)}

AdjustChoices_swapped(current_value, diff) ==
    IF diff > 0 THEN possible_decreases(current_value, diff)
    ELSE IF diff < 0 THEN possible_increases(current_value, diff)
    ELSE {}

\* lines 49-58: the candidates of one position of one adjustment round
AdjustChoices(current_value, diff) ==
    IF diff > 0 THEN possible_increases(current_value, diff)
    ELSE IF diff < 0 THEN possible_decreases(current_value, diff)
    ELSE {}

----------------------------------------------------------------------------
(* sorted(), tuple comparison *)

RECURSIVE Insert(_, _)
Insert(x, s) ==
    IF s = <<>> THEN <<x>>
    ELSE IF x <= Head(s) THEN <<x>> \o s
    ELSE <<Head(s)>> \o Insert(x, Tail(s))

Sorted_identity(s) == s

\* line 71
RECURSIVE Sorted(_)
Sorted(s) == IF s = <<>> THEN <<>> ELSE Insert(Head(s), Sorted(Tail(s)))

\* [tuple(sorted(alt)) for alt in alternatives]
SortedForms(alts) == {Sorted(alts[k]) : k \in 1..Len(alts)}

\* line 69: distribution and sum(distribution) == target_amount
Accepted(res, target) ==
    /\ res # None
    /\ Len(res[1]) > 0
    /\ Sum(res[1]) = target

----------------------------------------------------------------------------
(* Inputs *)

\* every denomination is a multiple of the smallest one
TargetStep == Min(Values)

\* targets on the 250 grid, up to ExtraSteps steps above num_coupons * max
GridTargets(n) ==
    {k * TargetStep : k \in 1..((n * Max(Values)) \div TargetStep + ExtraSteps)}

\* targets off the 250 grid
OffGridTargets == {100, 300}

\* the concrete scenarios of the specification, section 8
Scenarios == {<<1000, 1>>, <<750, 2>>, <<100, 1>>, <<4000, 2>>, <<3000, 4>>}

GenInputs ==
    UNION {{<<t, n>> : t \in GridTargets(n) \cup OffGridTargets} : n \in 1..MaxCount}
        \cup Scenarios

\* inputs of the builder: infeasible-low, a single result, one multiset in two
\* orders, two multisets, all-maximum, off-grid, above the maximum, and a target
\* some resolutions reach and others do not
AltInputs ==
    {<<100, 1>>, <<1000, 1>>, <<1500, 2>>, <<2500, 3>>, <<4000, 2>>, <<300, 1>>,
     <<2250, 1>>, <<1250, 2>>}

InitLocals ==
    /\ distribution = <<>>
    /\ remaining = 0
    /\ i = 0
    /\ attempts = 0
    /\ drawn = FALSE
    /\ result = None

InitGen ==
    /\ caller = "main"
    /\ \E inp \in GenInputs :
          /\ target_amount = inp[1]
          /\ num_coupons = inp[2]
    /\ num_alternatives = 0
    /\ pc = "gen_entry"
    /\ InitLocals
    /\ alternatives = <<>>
    /\ tries = 0
    /\ configs = {}

\* line 64-65
InitAlt ==
    /\ caller = "builder"
    /\ \E inp \in AltInputs :
          /\ target_amount = inp[1]
          /\ num_coupons = inp[2]
    /\ num_alternatives \in 0..MaxAlternatives
    /\ pc = "alt_loop"
    /\ InitLocals
    /\ alternatives = <<>>
    /\ tries = 0
    /\ configs = {}

----------------------------------------------------------------------------
(* generate_coupon_distribution *)

\* lines 12-13: infeasible
GenInfeasible ==
    /\ pc = "gen_entry"
    /\ caller \in {"main", "builder"}
    /\ Infeasible(target_amount, num_coupons)
    /\ result' = None
    /\ pc' = "returned"
    /\ UNCHANGED <<args, distribution, remaining, i, attempts, drawn, alternatives,
                   tries, configs>>

\* lines 16-17
GenStart ==
    /\ pc = "gen_entry"
    /\ caller \in {"main", "builder"}
    /\ ~Infeasible(target_amount, num_coupons)
    /\ distribution' = Repeat(Min(Values), num_coupons)
    /\ remaining' = target_amount - Sum(distribution')
    /\ i' = 1
    /\ pc' = "seed"
    /\ UNCHANGED <<args, attempts, drawn, result, alternatives, tries, configs>>

WhileCheck_no_count(d, a) ==
    IF Sum(d) # target_amount /\ a < MaxRounds
    THEN /\ attempts' = a
         /\ i' = 1
         /\ pc' = "adjust_for"
         /\ result' = result
    ELSE /\ attempts' = a
         /\ i' = i
         /\ pc' = "returned"
         /\ result' = Some(d)

WhileCheck_inverted(d, a) ==
    IF Sum(d) = target_amount /\ a < MaxRounds
    THEN /\ attempts' = a + 1
         /\ i' = 1
         /\ pc' = "adjust_for"
         /\ result' = result
    ELSE /\ attempts' = a
         /\ i' = i
         /\ pc' = "returned"
         /\ result' = Some(d)

WhileCheck_one_round(d, a) ==
    IF Sum(d) # target_amount /\ a < 1
    THEN /\ attempts' = a + 1
         /\ i' = 1
         /\ pc' = "adjust_for"
         /\ result' = result
    ELSE /\ attempts' = a
         /\ i' = i
         /\ pc' = "returned"
         /\ result' = Some(d)

\* lines 39-40, 60: the while condition is evaluated with `a' rounds started;
\* either the next round starts at its first position or d is returned as it is
WhileCheck(d, a) ==
    IF Sum(d) # target_amount /\ a < MaxRounds
    THEN /\ attempts' = a + 1
         /\ i' = 1
         /\ pc' = "adjust_for"
         /\ result' = result
    ELSE /\ attempts' = a
         /\ i' = i
         /\ pc' = "returned"
         /\ result' = Some(d)

\* lines 41-44: after the body at position i left d, the for loop goes on to the
\* next position, or ends (range exhausted, or break at the next position)
AfterPosition(d) ==
    IF i < num_coupons /\ Sum(d) # target_amount
    THEN /\ i' = i + 1
         /\ UNCHANGED <<pc, attempts, result>>
    ELSE WhileCheck(d, attempts)

\* lines 20-22, 38-40: the scan ends (range exhausted or break)
SeedExit ==
    /\ pc = "seed"
    /\ (i > num_coupons \/ remaining <= 0)
    /\ WhileCheck(distribution, 0)
    /\ UNCHANGED <<args, distribution, remaining, drawn, alternatives, tries, configs>>

\* lines 25-35: an upgrade is drawn
SeedUpgrade ==
    /\ pc = "seed"
    /\ i <= num_coupons
    /\ remaining > 0
    /\ \E new_value \in valid_upgrades(distribution[i], remaining) :
          /\ remaining' = remaining - (new_value - distribution[i])
          /\ distribution' = [distribution EXCEPT ![i] = new_value]
    /\ drawn' = TRUE
    /\ i' = i + 1
    /\ UNCHANGED <<args, pc, attempts, result, alternatives, tries, configs>>

\* lines 25-32: no upgrade fits
SeedSkip ==
    /\ pc = "seed"
    /\ i <= num_coupons
    /\ remaining > 0
    /\ valid_upgrades(distribution[i], remaining) = {}
    /\ i' = i + 1
    /\ UNCHANGED <<args, pc, distribution, remaining, attempts, drawn, result,
                   alternatives, tries, configs>>

\* lines 42-58: a replacement value is drawn for position i
AdjustChange ==
    /\ pc = "adjust_for"
    /\ \E v \in AdjustChoices(distribution[i], target_amount - Sum(distribution)) :
          /\ distribution' = [distribution EXCEPT ![i] = v]
          /\ AfterPosition(distribution')
    /\ drawn' = TRUE
    /\ UNCHANGED <<args, remaining, alternatives, tries, configs>>

\* lines 42-58: no value qualifies, the position is left unchanged
AdjustKeep ==
    /\ pc = "adjust_for"
    /\ AdjustChoices(distribution[i], target_amount - Sum(distribution)) = {}
    /\ AfterPosition(distribution)
    /\ UNCHANGED <<args, distribution, remaining, drawn, alternatives, tries, configs>>

----------------
(* generate_alternative_combinations *)

\* lines 67-68: the next iteration calls the generator (fresh locals)
AltCall ==
    /\ pc = "alt_loop"
    /\ caller = "builder"
    /\ tries < max_attempts
    /\ tries' = tries + 1
    /\ distribution' = <<>>
    /\ remaining' = 0
    /\ i' = 0
    /\ attempts' = 0
    /\ drawn' = FALSE
    /\ result' = None
    /\ pc' = "gen_entry"
    /\ UNCHANGED <<args, alternatives, configs>>

\* lines 69-75: the returned value is checked and collected
AltCollect ==
    /\ pc = "returned"
    /\ caller = "builder"
    /\ IF Accepted(result, target_amount)
          /\ Sorted(result[1]) \notin SortedForms(alternatives)
       THEN /\ alternatives' = Append(alternatives, result[1])
            /\ pc' = IF Len(alternatives') >= num_alternatives
                     THEN "alt_done" ELSE "alt_loop"
       ELSE /\ alternatives' = alternatives
            /\ pc' = "alt_loop"
    /\ UNCHANGED <<args, genLocals, tries, configs>>

\* lines 67, 77: the range is exhausted
AltExhausted ==
    /\ pc = "alt_loop"
    /\ caller = "builder"
    /\ ~(tries < max_attempts)
    /\ pc' = "alt_done"
    /\ UNCHANGED <<args, genLocals, alternatives, tries, configs>>

Next ==
    \/ GenInfeasible
    \/ GenStart
    \/ SeedExit
    \/ SeedUpgrade
    \/ SeedSkip
    \/ AdjustChange
    \/ AdjustKeep
    \/ AltCall
    \/ AltCollect
    \/ AltExhausted

Init == InitGen \/ InitAlt

Spec == Init /\ [][Next]_vars

----------------------------------------------------------------------------
(* generate_coupon_distribution over every resolution of its random choices:   *)
(* configs is the set of (distribution, remaining) the call can hold at the    *)
(* current position of the code.  A resolution whose loop has ended (break,    *)
(* or the while condition false) executes nothing more and keeps its value.    *)

Config(d, r) == [d |-> d, r |-> r]

\* lines 21-35: the body of the seeding scan at position k, from (d, r)
SeedResults(d, r, k) ==
    IF r <= 0 THEN {Config(d, r)}
    ELSE IF valid_upgrades(d[k], r) = {} THEN {Config(d, r)}
    ELSE {Config([d EXCEPT ![k] = v], r - (v - d[k])) : v \in valid_upgrades(d[k], r)}

\* lines 39-58: the body of an adjustment round at position k, from d
AdjustResults(d, k) ==
    IF Sum(d) = target_amount THEN {d}
    ELSE IF AdjustChoices(d[k], target_amount - Sum(d)) = {} THEN {d}
    ELSE {[d EXCEPT ![k] = v] : v \in AdjustChoices(d[k], target_amount - Sum(d))}

InitAll ==
    /\ caller = "all"
    /\ \E inp \in GenInputs :
          /\ target_amount = inp[1]
          /\ num_coupons = inp[2]
    /\ num_alternatives = 0
    /\ pc = "gen_entry"
    /\ InitLocals
    /\ alternatives = <<>>
    /\ tries = 0
    /\ configs = {}

\* lines 12-13
AllInfeasible ==
    /\ pc = "gen_entry"
    /\ caller = "all"
    /\ Infeasible(target_amount, num_coupons)
    /\ pc' = "returned"
    /\ UNCHANGED <<args, genLocals, alternatives, tries, configs>>

\* lines 16-17
AllStart ==
    /\ pc = "gen_entry"
    /\ caller = "all"
    /\ ~Infeasible(target_amount, num_coupons)
    /\ configs' = {Config(Repeat(Min(Values), num_coupons),
                          target_amount - Sum(Repeat(Min(Values), num_coupons)))}
    /\ i' = 1
    /\ pc' = "seed"
    /\ UNCHANGED <<args, distribution, remaining, attempts, drawn, result,
                   alternatives, tries>>

\* lines 20-35: position i of the seeding scan
AllSeed ==
    /\ pc = "seed"
    /\ caller = "all"
    /\ i <= num_coupons
    /\ configs' = UNION {SeedResults(c.d, c.r, i) : c \in configs}
    /\ i' = i + 1
    /\ UNCHANGED <<args, pc, distribution, remaining, attempts, drawn, result,
                   alternatives, tries>>

\* line 38
AllSeedExit ==
    /\ pc = "seed"
    /\ caller = "all"
    /\ i > num_coupons
    /\ attempts' = 0
    /\ pc' = "adjust_while"
    /\ UNCHANGED <<args, distribution, remaining, i, drawn, result, alternatives,
                   tries, configs>>

\* lines 39-41: some resolution starts another round
AllRound ==
    /\ pc = "adjust_while"
    /\ caller = "all"
    /\ \E c \in configs : Sum(c.d) # target_amount
    /\ attempts < MaxRounds
    /\ attempts' = attempts + 1
    /\ i' = 1
    /\ pc' = "adjust_for"
    /\ UNCHANGED <<args, distribution, remaining, drawn, result, alternatives,
                   tries, configs>>

\* lines 39, 60: every resolution has returned
AllReturn ==
    /\ pc = "adjust_while"
    /\ caller = "all"
    /\ ~((\E c \in configs : Sum(c.d) # target_amount) /\ attempts < MaxRounds)
    /\ pc' = "returned"
    /\ UNCHANGED <<args, genLocals, alternatives, tries, configs>>

\* lines 41-58: position i of the round
AllAdjust ==
    /\ pc = "adjust_for"
    /\ caller = "all"
    /\ i <= num_coupons
    /\ configs' = UNION {{Config(d, c.r) : d \in AdjustResults(c.d, i)} : c \in configs}
    /\ i' = i + 1
    /\ UNCHANGED <<args, pc, distribution, remaining, attempts, drawn, result,
                   alternatives, tries>>

\* line 41: the range is exhausted
AllRoundEnd ==
    /\ pc = "adjust_for"
    /\ caller = "all"
    /\ i > num_coupons
    /\ pc' = "adjust_while"
    /\ UNCHANGED <<args, genLocals, alternatives, tries, configs>>

NextAll ==
    \/ AllInfeasible
    \/ AllStart
    \/ AllSeed
    \/ AllSeedExit
    \/ AllRound
    \/ AllReturn
    \/ AllAdjust
    \/ AllRoundEnd

SpecAll == InitAll /\ [][NextAll]_vars

\* the sequences the call can return
Returned == {c.d : c \in configs}

----------------------------------------------------------------------------
(* Properties *)

Occurrences(s, v) == Cardinality({k \in 1..Len(s) : s[k] = v})

\* a and b hold the same values the same number of times
SameMultiset(a, b) ==
    /\ Len(a) = Len(b)
    /\ \A k \in 1..Len(a) : Occurrences(a, a[k]) = Occurrences(b, a[k])

InDenominations(d) == \A k \in 1..Len(d) : d[k] \in Values

ValidDistribution(d) ==
    /\ Len(d) = num_coupons
    /\ InDenominations(d)
    /\ Sum(d) = target_amount

\* some sequence of num_coupons denominations sums to target_amount
Feasible ==
    \E f \in [1..num_coupons -> Values] : Sum(f) = target_amount

InRange ==
    /\ num_coupons * Min(Values) <= target_amount
    /\ target_amount <= num_coupons * Max(Values)

\* C1: with target >= count * min, every sequence the generator returns has length
\* count and only denominations as elements, whether or not its sum is the target;
\* every accepted one (the sum check passes), and so every collected alternative,
\* also sums to the target.
C1_ReturnedShape ==
    /\ (pc = "returned" /\ target_amount >= num_coupons * Min(Values)) =>
          /\ result # None
          /\ Len(result[1]) = num_coupons
          /\ InDenominations(result[1])
    /\ (pc = "returned" /\ Accepted(result, target_amount)) =>
          ValidDistribution(result[1])
    /\ \A k \in 1..Len(alternatives) : ValidDistribution(alternatives[k])

C1_Witness ==
    /\ caller = "builder"
    /\ pc = "returned"
    /\ Len(alternatives) >= 1
    /\ result # None
    /\ ~Accepted(result, target_amount)
    /\ Len(result[1]) = num_coupons

\* C2 as stated: whenever count * min <= target <= count * max, some resolution of
\* the random choices returns a valid distribution.
C2_InRangeYields ==
    (pc = "returned" /\ InRange) => \E d \in Returned : ValidDistribution(d)

\* C2 amended: whenever some sequence of count denominations sums to the target,
\* some resolution of the random choices returns a valid distribution.
C2_FeasibleYields ==
    (pc = "returned" /\ Feasible) => \E d \in Returned : ValidDistribution(d)

C2_Witness ==
    /\ pc = "returned"
    /\ Feasible
    /\ \E d \in Returned : ValidDistribution(d)
    /\ \E d \in Returned : Sum(d) # target_amount

\* C3: with target < count * min the generator returns None at once: no
\* distribution is built, no random choice is drawn, and neither the seeding scan
\* nor an adjustment round is executed.
C3_InfeasibleImmediate ==
    target_amount < num_coupons * Min(Values) =>
        /\ pc \notin {"seed", "adjust_for"}
        /\ distribution = <<>>
        /\ remaining = 0
        /\ i = 0
        /\ attempts = 0
        /\ ~drawn
        /\ (pc = "returned" => result = None)

C3_Witness ==
    /\ pc = "returned"
    /\ target_amount < num_coupons * Min(Values)
    /\ target_amount >= Min(Values)
    /\ result = None

\* C4: at every point of the builder no two collected entries have the same
\* sorted form.
C4_DistinctSorted ==
    \A j, k \in 1..Len(alternatives) :
        j # k => ~SameMultiset(alternatives[j], alternatives[k])

\* the builder has just turned down an accepted sequence that is a permutation of
\* a collected one
C4_Witness ==
    /\ pc = "alt_loop"
    /\ Len(alternatives) >= 1
    /\ Accepted(result, target_amount)
    /\ \A k \in 1..Len(alternatives) : result[1] # alternatives[k]
    /\ \E k \in 1..Len(alternatives) : SameMultiset(result[1], alternatives[k])

\* C5: the builder never holds more than num_alternatives entries, also when
\* num_alternatives is 0.
C5_AtMostRequested ==
    Len(alternatives) <= num_alternatives

\* C6: with target = count * max, every execution returns the sequence that holds
\* the maximum denomination at every position.
C6_AllMaximum ==
    (pc = "returned" /\ target_amount = num_coupons * Max(Values)) =>
        result = Some(Repeat(Max(Values), num_coupons))

C6_Witness ==
    /\ pc = "returned"
    /\ target_amount = num_coupons * Max(Values)
    /\ num_coupons = 3
    /\ attempts >= 2
    /\ result = Some(Repeat(Max(Values), num_coupons))

\* C7: for target 3000 and count 4 every execution returns a sequence of length 4
\* whose sum is 3000.
C7_Scenario5 ==
    (pc = "returned" /\ target_amount = 3000 /\ num_coupons = 4) =>
        /\ result # None
        /\ Len(result[1]) = 4
        /\ Sum(result[1]) = 3000

C7_Witness ==
    /\ pc = "returned"
    /\ target_amount = 3000
    /\ num_coupons = 4
    /\ attempts >= 1
    /\ result # None
    /\ Sum(result[1]) = 3000

\* C8: the sum of the distribution never exceeds the target; during seeding
\* remaining = target - sum >= 0; diff is never negative where the adjustment
\* reads it, so the decrease branch is not taken; and no position's value ever
\* decreases.
C8_State ==
    /\ Sum(distribution) <= target_amount
    /\ pc = "seed" =>
          /\ remaining = target_amount - Sum(distribution)
          /\ remaining >= 0
    /\ pc = "adjust_for" => ~(target_amount - Sum(distribution) < 0)

C8_Step ==
    Len(distribution') = Len(distribution) =>
        \A k \in 1..Len(distribution) : distribution'[k] >= distribution[k]

\* C8: the state part holds in every reachable state, the step part on every step
C8_NeverAboveTarget == [](C8_State) /\ [][C8_Step]_vars

C8_Witness ==
    /\ pc = "adjust_for"
    /\ attempts = 2
    /\ i = 2
    /\ target_amount - Sum(distribution) > 0
    /\ Sum(distribution) > num_coupons * Min(Values) + remaining

\* C9: with target > count * max the generator never returns None: it runs all
\* 1000 rounds and returns a sequence of length count whose sum is not the
\* target, and the builder collects nothing.
C9_AboveMaximum ==
    target_amount > num_coupons * Max(Values) =>
        /\ pc = "returned" =>
              /\ result # None
              /\ Len(result[1]) = num_coupons
              /\ Sum(result[1]) # target_amount
              /\ attempts = MaxRounds
        /\ alternatives = <<>>

C9_Witness ==
    /\ pc = "alt_done"
    /\ target_amount > num_coupons * Max(Values)
    /\ tries = max_attempts
    /\ attempts = MaxRounds
    /\ result # None
    /\ alternatives = <<>>

\* the steps one generator call can still take
GenRank ==
    CASE pc = "gen_entry" -> MaxRounds * num_coupons + num_coupons + 3
      [] pc = "seed" -> MaxRounds * num_coupons + (num_coupons + 1 - i) + 1
      [] pc = "adjust_for" -> (MaxRounds - attempts) * num_coupons + (num_coupons - i) + 1
      [] OTHER -> 0

\* the steps the program can still take
Rank ==
    IF caller = "main" THEN GenRank
    ELSE CASE pc = "alt_done" -> 0
           [] pc = "alt_loop" ->
                (max_attempts - tries) * (MaxRounds * num_coupons + num_coupons + 6) + 1
           [] OTHER ->
                (max_attempts - tries) * (MaxRounds * num_coupons + num_coupons + 6)
                    + 2 + GenRank

C10_Bounds ==
    /\ Rank >= 0
    /\ attempts <= MaxRounds
    /\ tries <= max_attempts
    /\ pc = "seed" => i <= num_coupons + 1
    /\ pc = "alt_done" => (tries = max_attempts \/ Len(alternatives) >= num_alternatives)

C10_Step ==
    /\ Rank' < Rank
    /\ (Len(alternatives') > Len(alternatives) /\ Len(alternatives') >= num_alternatives)
          => pc' = "alt_done"

\* C10: both operations terminate under every resolution of the random choices
\* (every step lowers a natural-number rank), within one seeding scan of at most
\* count positions, at most 1000 rounds and at most 100 generator calls, and the
\* builder stops as soon as a collected entry brings it to the requested number.
C10_Terminates == [](C10_Bounds) /\ [][C10_Step]_vars

C10_Witness ==
    /\ pc = "alt_done"
    /\ tries < max_attempts
    /\ tries >= 2
    /\ Len(alternatives) = 2
    /\ num_alternatives = 2

====
